---- MODULE Spec2Model ----
(***************************************************************************)
(* Model of the web2code_wcgb GPT-4 vision evaluation pipeline:            *)
(*   utils.py                  cache file load/save, image encoding        *)
(*   vision_evaluation.py      fetch_api_response, generate_responses,     *)
(*                             get_individual_scores                       *)
(*   gpt4_vision_evaluation.py the entry point that chains them            *)
(* Python dicts are modelled as sequences of <<key, value>> pairs so that  *)
(* insertion order is kept; texts are sequences of one-character strings.  *)
(***************************************************************************)
EXTENDS Integers, Sequences, FiniteSets, TLC

\* ------------------------------------------------------------------ bounds
MaxRuns == 2
MaxAttemptsBound == 3
TokenSlack == 1

\* ------------------------------------------------------- program constants
DefaultMaxAttempts == 3
DefaultRetryDelay == 5
RubricLen == 10

\* ------------------------------------------------------------- value sets
Ids == {<<"a">>, <<"b">>}
PredModes == {"RGB", "LA"}
GtModes == {"RGBA", "LA"}
JpegModes == {"L", "RGB", "CMYK"}
DelayChoices == {0, 1, DefaultRetryDelay}
ErrorKinds == {"transport", "status", "decode"}

\* ------------------------------------------------------------ Python dict
DictKeys(d) == {d[i][1] : i \in DOMAIN d}

DictHas(d, k) == k \in DictKeys(d)

DictGet(d, k) == d[CHOOSE i \in DOMAIN d : d[i][1] = k][2]

DictSet(d, k, v) ==
    IF DictHas(d, k)
    THEN [i \in DOMAIN d |-> IF d[i][1] = k THEN <<k, v>> ELSE d[i]]
    ELSE Append(d, <<k, v>>)

DictValues(d) == [i \in DOMAIN d |-> d[i][2]]

DictItemKeys(d) == [i \in DOMAIN d |-> d[i][1]]

\* Python dict equality: same keys, same value under each key, any order.
DictEq(d1, d2) ==
    /\ DictKeys(d1) = DictKeys(d2)
    /\ \A k \in DictKeys(d1) : DictGet(d1, k) = DictGet(d2, k)

\* ------------------------------------------------------------ str helpers
\* the index of the first element of t that is in chars, 0 when there is none
FirstIn(t, chars) ==
    IF \E i \in DOMAIN t : t[i] \in chars
    THEN CHOOSE i \in DOMAIN t : t[i] \in chars /\ \A j \in 1..(i - 1) : t[j] \notin chars
    ELSE 0

\* str.replace("\n", ",")
ReplaceNewlines(t) == [i \in DOMAIN t |-> IF t[i] = "\n" THEN "," ELSE t[i]]

RECURSIVE LStrip(_, _)
LStrip(t, chars) ==
    IF t # <<>> /\ Head(t) \in chars THEN LStrip(Tail(t), chars) ELSE t

RECURSIVE RStrip(_, _)
RStrip(t, chars) ==
    IF t # <<>> /\ t[Len(t)] \in chars
    THEN RStrip(SubSeq(t, 1, Len(t) - 1), chars)
    ELSE t

\* str.strip(chars)
Strip(t, chars) == RStrip(LStrip(t, chars), chars)

\* str.split(sep): always at least one token, empty tokens are kept.
RECURSIVE Split(_, _)
Split(t, sep) ==
    LET i == FirstIn(t, {sep}) IN
    IF i = 0 THEN <<t>>
    ELSE <<SubSeq(t, 1, i - 1)>> \o Split(SubSeq(t, i + 1, Len(t)), sep)

\* ------------------------------------------------------------------ int()
Digits == {"0", "1", "2", "3", "4", "5", "6", "7", "8", "9"}
Whitespace == {" ", "\n", "\t"}

DigitValue(c) ==
    CASE c = "0" -> 0 [] c = "1" -> 1 [] c = "2" -> 2 [] c = "3" -> 3
      [] c = "4" -> 4 [] c = "5" -> 5 [] c = "6" -> 6 [] c = "7" -> 7
      [] c = "8" -> 8 [] c = "9" -> 9

\* digits, with single underscores allowed between digits
IsDigitString(s) ==
    /\ s # <<>>
    /\ \A i \in DOMAIN s : s[i] \in Digits \cup {"_"}
    /\ s[1] \in Digits
    /\ s[Len(s)] \in Digits
    /\ \A i \in 1..(Len(s) - 1) : ~(s[i] = "_" /\ s[i + 1] = "_")

RECURSIVE DigitsValue(_, _)
DigitsValue(s, acc) ==
    IF s = <<>> THEN acc
    ELSE IF Head(s) = "_" THEN DigitsValue(Tail(s), acc)
    ELSE DigitsValue(Tail(s), 10 * acc + DigitValue(Head(s)))

Unsigned(s) == IF s # <<>> /\ Head(s) \in {"+", "-"} THEN Tail(s) ELSE s

\* int(tok) does not raise ValueError
IntAccepts(tok) == IsDigitString(Unsigned(Strip(tok, Whitespace)))

\* the value int(tok) returns when it does not raise
IntOf(tok) ==
    LET s == Strip(tok, Whitespace)
        v == DigitsValue(Unsigned(s), 0)
    IN  IF s # <<>> /\ Head(s) = "-" THEN 0 - v ELSE v

\* ------------------------------------------------------------------- json
\* A str is a sequence of atoms (characters; a key or identifier is one atom
\* or more).  An item is a dict from str to str.
Quote == "\""
Backslash == "\\"
ImageIdKey == <<"image_id">>
OutputKey == <<"output">>

\* a record whose two fields are exchanged
MakeResultSwapped(image_id, output) == <<<<ImageIdKey, output>>, <<OutputKey, image_id>>>>

\* ImageEvaluationResult as built by generate_responses
MakeResult(image_id, output) == <<<<ImageIdKey, image_id>>, <<OutputKey, output>>>>

\* an encoder that escapes nothing
EscapeAtomPlain(c) == <<c>>

\* the escapes of json.dumps for a line break, a backslash and a quote
EscapeAtom(c) ==
    IF c = "\n" THEN <<Backslash, "n">>
    ELSE IF c = Backslash THEN <<Backslash, Backslash>>
    ELSE IF c = Quote THEN <<Backslash, Quote>>
    ELSE <<c>>

\* the body of a JSON string literal, as json.dumps writes it
RECURSIVE Escape(_)
Escape(t) ==
    LET i == FirstIn(t, {"\n", Backslash, Quote}) IN
    IF i = 0 THEN t
    ELSE SubSeq(t, 1, i - 1) \o EscapeAtom(t[i]) \o Escape(SubSeq(t, i + 1, Len(t)))

JsonString(t) == <<Quote>> \o Escape(t) \o <<Quote>>

RECURSIVE JsonMembers(_)
JsonMembers(item) ==
    IF item = <<>> THEN <<>>
    ELSE JsonString(Head(item)[1]) \o <<":", " ">> \o JsonString(Head(item)[2])
         \o (IF Tail(item) = <<>> THEN <<>> ELSE <<",", " ">>)
         \o JsonMembers(Tail(item))

\* json.dumps(item) with the default separators
JsonDumps(item) == <<"{">> \o JsonMembers(item) \o <<"}">>

JsonError == [ok |-> FALSE, value |-> <<>>, rest |-> <<>>]

\* scans a string literal after its opening quote
RECURSIVE ScanString(_, _)
ScanString(s, acc) ==
    LET i == FirstIn(s, {Quote, Backslash, "\n"})
        plain == acc \o SubSeq(s, 1, i - 1)
        rest == SubSeq(s, i + 2, Len(s))
    IN  IF i = 0 THEN JsonError
        ELSE IF s[i] = Quote
             THEN [ok |-> TRUE, value |-> plain, rest |-> SubSeq(s, i + 1, Len(s))]
        ELSE IF s[i] = "\n" \/ i = Len(s) THEN JsonError
        ELSE IF s[i + 1] = "n" THEN ScanString(rest, Append(plain, "\n"))
        ELSE IF s[i + 1] \in {Backslash, Quote} THEN ScanString(rest, Append(plain, s[i + 1]))
        ELSE JsonError

ParseString(s) ==
    IF s # <<>> /\ Head(s) = Quote THEN ScanString(Tail(s), <<>>) ELSE JsonError

\* members of an object after "{", up to and including "}"
RECURSIVE ParseMembers(_, _)
ParseMembers(s, acc) ==
    LET k == ParseString(s) IN
    IF ~k.ok \/ Len(k.rest) < 2 \/ SubSeq(k.rest, 1, 2) # <<":", " ">> THEN JsonError
    ELSE LET v == ParseString(SubSeq(k.rest, 3, Len(k.rest)))
             item == DictSet(acc, k.value, v.value)
         IN  IF ~v.ok THEN JsonError
             ELSE IF v.rest = <<"}">> THEN [ok |-> TRUE, value |-> item, rest |-> <<>>]
             ELSE IF Len(v.rest) > 2 /\ SubSeq(v.rest, 1, 2) = <<",", " ">>
                  THEN ParseMembers(SubSeq(v.rest, 3, Len(v.rest)), item)
             ELSE JsonError

\* json.loads(line): ok = FALSE stands for JSONDecodeError
JsonLoads(line) ==
    LET s == Strip(line, Whitespace) IN
    IF s = <<"{", "}">> THEN [ok |-> TRUE, value |-> <<>>, rest |-> <<>>]
    ELSE IF s # <<>> /\ Head(s) = "{" THEN ParseMembers(Tail(s), <<>>)
    ELSE JsonError

\* ------------------------------------------------------------- cache file
AbsentFile == [exists |-> FALSE, content |-> <<>>]

\* where the first line of a non-empty text ends: at its first line break,
\* or at the end of the text when it has none
LineEnd(c) ==
    IF \E i \in DOMAIN c : c[i] = "\n"
    THEN CHOOSE i \in DOMAIN c : c[i] = "\n" /\ \A j \in 1..(i - 1) : c[j] # "\n"
    ELSE Len(c)

\* iteration over a text file: each line keeps its trailing newline
RECURSIVE FileLines(_)
FileLines(c) ==
    IF c = <<>> THEN <<>>
    ELSE <<SubSeq(c, 1, LineEnd(c))>> \o FileLines(SubSeq(c, LineEnd(c) + 1, Len(c)))

LoadError == [raised |-> TRUE, data |-> <<>>]

RECURSIVE LoadLines(_, _)
LoadLines(lines, processed) ==
    IF lines = <<>> THEN [raised |-> FALSE, data |-> processed]
    ELSE IF Strip(Head(lines), Whitespace) = <<>> THEN LoadLines(Tail(lines), processed)
    ELSE LET item == JsonLoads(Head(lines)) IN
         IF ~item.ok THEN LoadError
         ELSE IF DictHas(item.value, ImageIdKey)
              THEN LoadLines(Tail(lines),
                             DictSet(processed, DictGet(item.value, ImageIdKey), item.value))
         ELSE LoadLines(Tail(lines), processed)

\* a loader that files every record under its output instead of its image_id
GetProcessedDataByOutput(f) ==
    LET loaded == IF f.exists THEN LoadLines(FileLines(f.content), <<>>)
                  ELSE [raised |-> FALSE, data |-> <<>>]
    IN  [loaded EXCEPT !.data = [i \in DOMAIN @ |-> <<DictGet(@[i][2], OutputKey), @[i][2]>>]]

\* get_processed_data(output_jsonl_path)
GetProcessedData(f) ==
    IF f.exists THEN LoadLines(FileLines(f.content), <<>>)
    ELSE [raised |-> FALSE, data |-> <<>>]

\* a line written without its line break
ResultLineNoBreak(result) == JsonDumps(result)

\* the text one iteration of save_results_to_jsonl writes
ResultLine(result) == JsonDumps(result) \o <<"\n">>

\* ----------------------------------------------------------- encode_image
\* An image is modelled by its mode; saving as JPEG raises for a mode the
\* JPEG writer does not support.
EncodeImage(image) ==
    LET converted == IF image \in {"RGBA", "P"} THEN "RGB" ELSE image IN
    IF converted \in JpegModes
    THEN [raised |-> FALSE, value |-> <<"base64", converted>>]
    ELSE [raised |-> TRUE, value |-> <<>>]

\* -------------------------------------------------- get_individual_scores
\* output.replace("\n", ",").strip(", ").split(",")
OutputTokens(output) == Split(Strip(ReplaceNewlines(output), {",", " "}), ",")

\* list(map(int, tokens)): raises as soon as one token is not an int literal
IntList(tokens) ==
    IF \A i \in DOMAIN tokens : IntAccepts(tokens[i])
    THEN [raised |-> FALSE, value |-> [i \in DOMAIN tokens |-> IntOf(tokens[i])]]
    ELSE [raised |-> TRUE, value |-> <<>>]

\* a rubric built with the first two scores exchanged
DetailedScoresSwapped(output_list) ==
    [layout_consistency    |-> output_list[2],
     element_alignment     |-> output_list[1],
     proportional_accuracy |-> output_list[3],
     visual_harmony        |-> output_list[4],
     color_scheme_match    |-> output_list[5],
     aesthetic_resemblance |-> output_list[6],
     font_consistency      |-> output_list[7],
     textual_content_match |-> output_list[8],
     numeric_accuracy      |-> output_list[9],
     ui_consistency        |-> output_list[10]]

\* lines 260-271
DetailedScores(output_list) ==
    [layout_consistency    |-> output_list[1],
     element_alignment     |-> output_list[2],
     proportional_accuracy |-> output_list[3],
     visual_harmony        |-> output_list[4],
     color_scheme_match    |-> output_list[5],
     aesthetic_resemblance |-> output_list[6],
     font_consistency      |-> output_list[7],
     textual_content_match |-> output_list[8],
     numeric_accuracy      |-> output_list[9],
     ui_consistency        |-> output_list[10]]

\* a length test that only rejects lists that are too short
WrongLengthBelow(output_list) == Len(output_list) < RubricLen

\* the length test of line 257
WrongLength(output_list) == Len(output_list) # RubricLen

\* the loop of get_individual_scores over results.items(), in order
RECURSIVE ScoresLoop(_, _)
ScoresLoop(items, individual_scores) ==
    IF items = <<>> THEN individual_scores
    ELSE LET image_id == Head(items)[1]
             output == DictGet(Head(items)[2], OutputKey)
             output_list == IntList(OutputTokens(output))
         IN  IF output_list.raised
             THEN ScoresLoop(Tail(items), individual_scores)
             ELSE IF WrongLength(output_list.value)
             THEN ScoresLoop(Tail(items), individual_scores)
             ELSE ScoresLoop(Tail(items),
                             DictSet(individual_scores, image_id,
                                     DetailedScores(output_list.value)))

\* a parser that gives every record a rubric, of zeros when it cannot parse
GetIndividualScoresAll(res) ==
    LET parsed == ScoresLoop(res, <<>>) IN
    [i \in DOMAIN res |->
        <<res[i][1],
          IF DictHas(parsed, res[i][1]) THEN DictGet(parsed, res[i][1])
          ELSE DetailedScores([k \in 1..RubricLen |-> 0])>>]

GetIndividualScores(res) == ScoresLoop(res, <<>>)

\* ------------------------------------------------- evaluate_image_metrics
\* the numbers of evaluate_image_metrics are kept as exact fractions in
\* lowest terms with a positive denominator
RECURSIVE Gcd(_, _)
Gcd(a, b) == IF b = 0 THEN a ELSE Gcd(b, a % b)

Abs(n) == IF n < 0 THEN 0 - n ELSE n

Frac(n, d) ==
    LET g == Gcd(Abs(n), d) IN [num |-> n \div g, den |-> d \div g]

Zero == [num |-> 0, den |-> 1]

FracAdd(x, y) == Frac(x.num * y.den + y.num * x.den, x.den * y.den)

\* a division that divides twice
FracDivTwice(x, k) == Frac(x.num, x.den * k * k)

FracDiv(x, k) == Frac(x.num, x.den * k)

\* lines 193-199: four fields are summed and divided by 4
VisualStructureFields == 4

\* lines 200-202
ColorAestheticFields == 2

\* lines 203-207
TextualContentFields == 3

\* line 229: the four category values are averaged
Categories == 4

\* the state before the loop, lines 186-190
MetricsStart ==
    [total_images_processed |-> 0, vis_struct |-> Zero, color_aesthetic |-> Zero,
     textual_content |-> Zero, user_interface |-> Zero]

\* one turn of the loop of lines 192-208
MetricsStep(acc, output) ==
    [total_images_processed |-> acc.total_images_processed + 1,
     vis_struct |->
         FracAdd(acc.vis_struct,
                 Frac(output.layout_consistency + output.element_alignment
                          + output.proportional_accuracy + output.visual_harmony,
                      VisualStructureFields)),
     color_aesthetic |->
         FracAdd(acc.color_aesthetic,
                 Frac(output.color_scheme_match + output.aesthetic_resemblance,
                      ColorAestheticFields)),
     textual_content |->
         FracAdd(acc.textual_content,
                 Frac(output.font_consistency + output.textual_content_match
                          + output.numeric_accuracy,
                      TextualContentFields)),
     user_interface |-> FracAdd(acc.user_interface, Frac(output.ui_consistency, 1))]

RECURSIVE MetricsLoop(_, _)
MetricsLoop(values, acc) ==
    IF values = <<>> THEN acc
    ELSE MetricsLoop(Tail(values), MetricsStep(acc, Head(values)))

\* lines 210-233
EvaluateImageMetrics(individual_results) ==
    LET acc == MetricsLoop(DictValues(individual_results), MetricsStart)
        n == acc.total_images_processed
        vis_struct == FracDiv(acc.vis_struct, n)
        color_aesthetic == FracDiv(acc.color_aesthetic, n)
        textual_content == FracDiv(acc.textual_content, n)
        user_interface == FracDiv(acc.user_interface, n)
    IN  IF n = 0
        THEN [overall_similarity |-> Zero, visual_structure |-> Zero,
              color_aesthetic |-> Zero, textual_content |-> Zero,
              user_interface |-> Zero]
        ELSE [overall_similarity |->
                  FracDiv(FracAdd(FracAdd(FracAdd(vis_struct, color_aesthetic),
                                          textual_content),
                                  user_interface),
                          Categories),
              visual_structure |-> vis_struct,
              color_aesthetic |-> color_aesthetic,
              textual_content |-> textual_content,
              user_interface |-> user_interface]

\* no evaluate_image_metrics call has returned in the current run
NoMetrics == <<>>

\* ------------------------------------------------------------------ state
VARIABLES
    file,              \* the cache file gpt4_vision_evaluation_output.jsonl
    summary,           \* TRUE once vision_evaluation_summary.log is written
    pc,                \* position of the running entry point ("idle": none)
    exit,              \* how the last run ended
    output_dir,        \* "str" or "Path": the type of the output_dir argument
    pred_files,        \* dict base_name -> image
    gt_files,          \* dict base_name -> image
    processed_data,    \* dict loaded from the cache file
    results,           \* dict accumulated by generate_responses
    queue,             \* items of pred_files the loop has not finished with
    writeq,            \* results.values() not yet written by the save
    individual_scores, \* dict image_id -> DetailedScores
    analysis_results,  \* MetricsResult of the last evaluate_image_metrics call
    fstate,            \* fetch_api_response: idle, running, except, returned, raised
    max_attempts,
    retry_delay,
    attempt,
    error,             \* the exception caught by the last failed attempt
    response,          \* the text the fetch returned
    fetchLog,          \* requests and sleeps of the current fetch call, in order
    runs,              \* number of runs started
    fetchOrder,        \* base_names the fetch function was called for, this run
    callCount,         \* base_name -> fetch calls over all runs
    okCount,           \* base_name -> fetch calls that returned, over all runs
    raisedIds,         \* base_names whose fetch raised in this run
    prevRaised,        \* raisedIds of the previous run
    persisted,         \* image_id -> output first read back from a saved cache
    given,             \* the arguments a caller repeats run after run, or NoArgs
    fetched            \* dict base_name -> text the fetch returned, this run

storeVars == <<file, summary>>
inputVars == <<output_dir, pred_files, gt_files, processed_data>>
fetchVars == <<fstate, max_attempts, retry_delay, attempt, error, response, fetchLog>>
countVars == <<callCount, okCount>>
runHist == <<runs, prevRaised, given>>
vars == <<file, summary, pc, exit, output_dir, pred_files, gt_files,
          processed_data, results, queue, writeq, individual_scores,
          analysis_results,
          fstate, max_attempts, retry_delay, attempt, error, response, fetchLog,
          runs, fetchOrder, callCount, okCount, raisedIds, prevRaised,
          persisted, given, fetched>>

\* ----------------------------------------------------------------- inputs
\* the scorer's answers used in runs: the spec's tolerant example and a refusal
GoodBody == <<"7", "\n", "8", ",", " ", "9", " ", ",", "1", "0", ",", "6", ",",
              "5", ",", "4", ",", "3", ",", "2", ",", "1">>
BadBody == <<"n", "o">>
Bodies == {GoodBody, BadBody}

DistinctKeys(d) == \A i, j \in DOMAIN d : d[i][1] = d[j][1] => i = j

\* what normalize_input can return: any order of any subset of the names
ImageDicts(modes) ==
    {d \in UNION {[1..n -> Ids \X modes] : n \in 0..Cardinality(Ids)} : DistinctKeys(d)}

PredDicts == ImageDicts(PredModes)

\* gt_files is only looked up, never iterated: one order per key set is enough
IdRank(id) == IF id = <<"a">> THEN 1 ELSE IF id = <<"b">> THEN 2 ELSE 3

GtDicts == {d \in ImageDicts(GtModes) : \A i, j \in DOMAIN d : i < j => IdRank(d[i][1]) < IdRank(d[j][1])}

\* each run is started with arguments of its own
NoArgs == <<>>

\* marks an identifier no saved cache has held yet
NotPersisted == <<"None">>

NoRequest == [op |-> "request", arg |-> 0]
Sleep(d) == [op |-> "sleep", arg |-> d]

Quiet ==
    /\ summary = FALSE
    /\ exit = "none"
    /\ output_dir = "Path"
    /\ pred_files = <<>>
    /\ gt_files = <<>>
    /\ processed_data = <<>>
    /\ queue = <<>>
    /\ writeq = <<>>
    /\ analysis_results = NoMetrics
    /\ error = "none"
    /\ response = <<>>
    /\ fetchLog = <<>>
    /\ runs = 0
    /\ fetchOrder = <<>>
    /\ callCount = [id \in Ids |-> 0]
    /\ okCount = [id \in Ids |-> 0]
    /\ raisedIds = {}
    /\ prevRaised = {}
    /\ persisted = [id \in Ids |-> NotPersisted]
    /\ fetched = <<>>

\* no run has started: no cache file, no summary
Init ==
    /\ Quiet
    /\ given = NoArgs
    /\ file = AbsentFile
    /\ individual_scores = <<>>
    /\ pc = "idle"
    /\ results = <<>>
    /\ fstate = "idle"
    /\ max_attempts = DefaultMaxAttempts
    /\ retry_delay = DefaultRetryDelay
    /\ attempt = 0

\* ----------------------------------------------------- fetch_api_response
\* a loop condition that is off by one
ShouldRequestInclusive(a, m) == a <= m

\* while attempt < max_attempts
ShouldRequest(a, m) == a < m

Requests(log) == Cardinality({i \in DOMAIN log : log[i].op = "request"})
Sleeps(log) == Cardinality({i \in DOMAIN log : log[i].op = "sleep"})

\* a loop that takes the base_name from the far end of the predicted set
CurrentLast == queue[Len(queue)][1]

\* the base_name a fetch started by generate_responses works for
Current == Head(queue)[1]

\* the locals of fetch_api_response are gone once its caller has the outcome
FetchLocalsGone ==
    /\ fstate' = "idle"
    /\ attempt' = 0
    /\ error' = "none"
    /\ response' = <<>>
    /\ fetchLog' = <<>>
    /\ UNCHANGED <<max_attempts, retry_delay>>

\* a successful request that is handled like a failed one
FetchRequestOkRetried ==
    /\ fstate = "running"
    /\ ShouldRequest(attempt, max_attempts)
    /\ \E body \in Bodies :
        /\ response' = body
        /\ fetched' = IF pc = "loop" THEN DictSet(fetched, Current, body) ELSE fetched
    /\ fetchLog' = Append(fetchLog, NoRequest)
    /\ fstate' = "except"
    /\ UNCHANGED <<storeVars, inputVars, countVars, runHist, pc, exit, results,
                   queue, writeq, individual_scores, analysis_results, max_attempts,
                   retry_delay, attempt, error, fetchOrder, raisedIds, persisted>>

\* requests.post and raise_for_status succeed: the decoded body is returned
FetchRequestOk ==
    /\ fstate = "running"
    /\ ShouldRequest(attempt, max_attempts)
    /\ \E body \in Bodies :
        /\ response' = body
        /\ fetched' = IF pc = "loop" THEN DictSet(fetched, Current, body) ELSE fetched
    /\ fetchLog' = Append(fetchLog, NoRequest)
    /\ fstate' = "returned"
    /\ UNCHANGED <<storeVars, inputVars, countVars, runHist, pc, exit, results,
                   queue, writeq, individual_scores, analysis_results, max_attempts, retry_delay,
                   attempt, error, fetchOrder, raisedIds, persisted>>

\* requests.post raises (transport), raise_for_status raises (status) or
\* content.decode raises (decode)
FetchRequestFail ==
    /\ fstate = "running"
    /\ ShouldRequest(attempt, max_attempts)
    /\ \E kind \in ErrorKinds : error' = kind
    /\ fetchLog' = Append(fetchLog, NoRequest)
    /\ fstate' = "except"
    /\ UNCHANGED <<storeVars, inputVars, countVars, runHist, pc, exit, results,
                   queue, writeq, individual_scores, analysis_results, max_attempts, retry_delay,
                   attempt, response, fetchOrder, raisedIds, persisted, fetched>>

\* the except block: attempt += 1; time.sleep(retry_delay); continue
FetchRetry ==
    /\ fstate = "except"
    /\ attempt' = attempt + 1
    /\ fetchLog' = Append(fetchLog, Sleep(retry_delay))
    /\ error' = "none"
    /\ fstate' = "running"
    /\ UNCHANGED <<storeVars, inputVars, countVars, runHist, pc, exit, results,
                   queue, writeq, individual_scores, analysis_results, max_attempts, retry_delay,
                   response, fetchOrder, raisedIds, persisted, fetched>>

\* the loop condition fails: raise Exception("Failed to fetch ...")
FetchExhausted ==
    /\ fstate = "running"
    /\ ~ShouldRequest(attempt, max_attempts)
    /\ fstate' = "raised"
    /\ UNCHANGED <<storeVars, inputVars, countVars, runHist, pc, exit, results,
                   queue, writeq, individual_scores, analysis_results, max_attempts, retry_delay,
                   attempt, error, response, fetchLog, fetchOrder, raisedIds,
                   persisted, fetched>>

\* ----------------------------------------------------- generate_responses
\* a copy that forgets the cache
CopyCacheEmpty(cached) == <<>>

\* results = cached_processed_data.copy()
CopyCache(cached) == cached

\* a membership test that never finds the name
AlreadyProcessedNever(base_name, res) == FALSE

\* if base_name in results
AlreadyProcessed(base_name, res) == DictHas(res, base_name)

\* a ground-truth test that always passes
HasGroundTruthAlways(base_name, gt) == TRUE

\* if base_name not in gt_files
HasGroundTruth(base_name, gt) == DictHas(gt, base_name)

\* handlers that catch encoding errors only
CaughtOnlyOSError(exc) == exc \in {"OSError"}

\* except Exception: the exception classes the two handlers catch
Caught(exc) == exc \in {"Exception", "OSError", "ValueError", "KeyError"}

\* a handler that records the failure as a result
ResultsAfterFailureCached(res, base_name) ==
    DictSet(res, base_name, <<<<ImageIdKey, base_name>>, <<OutputKey, <<>>>>>>)

\* results after the handler of a failed fetch
ResultsAfterFailure(res, base_name) == res

\* the two encode_image calls of the try block
EncodePair(pred_image, gt_image) ==
    LET p == EncodeImage(pred_image)
        g == EncodeImage(gt_image)
    IN  [raised |-> p.raised \/ g.raised, pred |-> p.value, gt |-> g.value]

\* the process ends and its memory with it; the history keeps which fetches
\* raised in the run that ended
ProcessExit(how) ==
    /\ pc' = "idle"
    /\ exit' = how
    /\ output_dir' = "Path"
    /\ pred_files' = <<>>
    /\ gt_files' = <<>>
    /\ processed_data' = <<>>
    /\ results' = <<>>
    /\ queue' = <<>>
    /\ writeq' = <<>>
    /\ individual_scores' = <<>>
    /\ analysis_results' = NoMetrics
    /\ fetchOrder' = <<>>
    /\ fetched' = <<>>
    /\ FetchLocalsGone

\* entry point up to the first iteration: load the cache, read the inputs,
\* copy the cache into results
StartRun ==
    /\ pc = "idle"
    /\ runs < MaxRuns
    /\ runs' = runs + 1
    /\ prevRaised' = raisedIds
    /\ raisedIds' = {}
    /\ \E od \in {"str", "Path"}, pf \in PredDicts, gf \in GtDicts :
        LET loaded == GetProcessedData(file) IN
        IF loaded.raised
        THEN /\ exit' = "JSONDecodeError"
             /\ UNCHANGED <<pc, inputVars, results, queue>>
        ELSE /\ pc' = "loop"
             /\ exit' = "running"
             /\ output_dir' = od
             /\ processed_data' = loaded.data
             /\ pred_files' = pf
             /\ gt_files' = gf
             /\ results' = CopyCache(loaded.data)
             /\ queue' = pf
    /\ UNCHANGED <<storeVars, fetchVars, countVars, writeq, individual_scores, analysis_results,
                   fetchOrder, persisted, given, fetched>>

\* a run that starts from an empty mapping whatever the cache file holds
RerunFresh ==
    /\ pc = "idle"
    /\ given # NoArgs
    /\ runs' = IF runs < MaxRuns THEN runs + 1 ELSE runs
    /\ prevRaised' = raisedIds
    /\ raisedIds' = {}
    /\ pc' = "loop"
    /\ exit' = "running"
    /\ output_dir' = given.output_dir
    /\ processed_data' = <<>>
    /\ pred_files' = given.pred
    /\ gt_files' = given.gt
    /\ results' = <<>>
    /\ queue' = given.pred
    /\ UNCHANGED <<storeVars, fetchVars, countVars, writeq, individual_scores,
                   analysis_results, fetchOrder, persisted, given, fetched>>

\* the caller starts the entry point once more with the same arguments: load
\* the cache, read the inputs, copy the cache into results; the count of runs
\* stops at MaxRuns
Rerun ==
    /\ pc = "idle"
    /\ given # NoArgs
    /\ runs' = IF runs < MaxRuns THEN runs + 1 ELSE runs
    /\ prevRaised' = raisedIds
    /\ raisedIds' = {}
    /\ LET loaded == GetProcessedData(file) IN
        IF loaded.raised
        THEN /\ exit' = "JSONDecodeError"
             /\ UNCHANGED <<pc, inputVars, results, queue>>
        ELSE /\ pc' = "loop"
             /\ exit' = "running"
             /\ output_dir' = given.output_dir
             /\ processed_data' = loaded.data
             /\ pred_files' = given.pred
             /\ gt_files' = given.gt
             /\ results' = CopyCache(loaded.data)
             /\ queue' = given.pred
    /\ UNCHANGED <<storeVars, fetchVars, countVars, writeq, individual_scores,
                   analysis_results, fetchOrder, persisted, given, fetched>>

InLoop == pc = "loop" /\ fstate = "idle" /\ queue # <<>>

\* lines 140-142
SkipCached ==
    /\ InLoop
    /\ AlreadyProcessed(Current, results)
    /\ queue' = Tail(queue)
    /\ UNCHANGED <<storeVars, inputVars, fetchVars, countVars, runHist, pc, exit,
                   results, writeq, individual_scores, analysis_results, fetchOrder, raisedIds,
                   persisted, fetched>>

\* lines 145-147
SkipNoGroundTruth ==
    /\ InLoop
    /\ ~AlreadyProcessed(Current, results)
    /\ ~HasGroundTruth(Current, gt_files)
    /\ queue' = Tail(queue)
    /\ UNCHANGED <<storeVars, inputVars, fetchVars, countVars, runHist, pc, exit,
                   results, writeq, individual_scores, analysis_results, fetchOrder, raisedIds,
                   persisted, fetched>>

\* lines 149-160: gt_files[base_name] raises KeyError when the key is missing
\* (outside any try); an encoding error is caught and the loop continues
EncodeFailure ==
    /\ InLoop
    /\ ~AlreadyProcessed(Current, results)
    /\ HasGroundTruth(Current, gt_files)
    /\ IF ~DictHas(gt_files, Current)
       THEN ProcessExit("KeyError")
       ELSE /\ EncodePair(Head(queue)[2], DictGet(gt_files, Current)).raised
            /\ IF Caught("OSError")
               THEN /\ queue' = Tail(queue)
                    /\ UNCHANGED <<pc, exit, inputVars, fetchVars, results, writeq,
                                   individual_scores, analysis_results, fetchOrder, fetched>>
               ELSE ProcessExit("OSError")
    /\ UNCHANGED <<storeVars, countVars, runHist, raisedIds, persisted>>

\* lines 155-163: both images encoded, fetch_response_func is called; the entry
\* point's lambda leaves max_attempts and retry_delay at their defaults
CallFetch ==
    /\ InLoop
    /\ ~AlreadyProcessed(Current, results)
    /\ HasGroundTruth(Current, gt_files)
    /\ DictHas(gt_files, Current)
    /\ ~EncodePair(Head(queue)[2], DictGet(gt_files, Current)).raised
    /\ fstate' = "running"
    /\ max_attempts' = DefaultMaxAttempts
    /\ retry_delay' = DefaultRetryDelay
    /\ attempt' = 0
    /\ fetchLog' = <<>>
    /\ fetchOrder' = Append(fetchOrder, Current)
    /\ callCount' = [callCount EXCEPT ![Current] = IF @ < MaxRuns THEN @ + 1 ELSE @]
    /\ UNCHANGED <<storeVars, inputVars, runHist, pc, exit, results, queue, writeq,
                   individual_scores, analysis_results, error, response, okCount, raisedIds,
                   persisted, fetched>>

\* lines 163-167: the fetch returned
StoreResult ==
    /\ pc = "loop"
    /\ fstate = "returned"
    /\ results' = DictSet(results, Current, MakeResult(Current, response))
    /\ okCount' = [okCount EXCEPT ![Current] = IF @ < MaxRuns THEN @ + 1 ELSE @]
    /\ queue' = Tail(queue)
    /\ FetchLocalsGone
    /\ UNCHANGED <<storeVars, inputVars, runHist, pc, exit, writeq,
                   individual_scores, analysis_results, fetchOrder, callCount, raisedIds,
                   persisted, fetched>>

\* lines 168-169: the fetch raised
HandleFetchError ==
    /\ pc = "loop"
    /\ fstate = "raised"
    /\ raisedIds' = raisedIds \cup {Current}
    /\ IF Caught("Exception")
       THEN /\ results' = ResultsAfterFailure(results, Current)
            /\ queue' = Tail(queue)
            /\ FetchLocalsGone
            /\ UNCHANGED <<pc, exit, inputVars, writeq, individual_scores, analysis_results,
                           fetchOrder, fetched>>
       ELSE ProcessExit("Exception")
    /\ UNCHANGED <<storeVars, countVars, runHist, persisted>>

\* line 171: return results
ReturnResults ==
    /\ pc = "loop"
    /\ fstate = "idle"
    /\ queue = <<>>
    /\ pc' = "save"
    /\ UNCHANGED <<storeVars, inputVars, fetchVars, countVars, runHist, exit,
                   results, queue, writeq, individual_scores, analysis_results, fetchOrder,
                   raisedIds, persisted, fetched>>

\* -------------------------------------------------- save_results_to_jsonl
\* open(output_jsonl_path, "w"): the file is created or truncated
SaveOpen ==
    /\ pc = "save"
    /\ file' = [exists |-> TRUE, content |-> <<>>]
    /\ writeq' = DictValues(results)
    /\ pc' = "write"
    /\ UNCHANGED <<summary, inputVars, fetchVars, countVars, runHist, exit, results,
                   queue, individual_scores, analysis_results, fetchOrder, raisedIds, persisted, fetched>>

\* file.write(json.dumps(result) + "\n")
SaveWrite ==
    /\ pc = "write"
    /\ writeq # <<>>
    /\ file' = [file EXCEPT !.content = @ \o ResultLine(Head(writeq))]
    /\ writeq' = Tail(writeq)
    /\ UNCHANGED <<summary, inputVars, fetchVars, countVars, runHist, pc, exit,
                   results, queue, individual_scores, analysis_results, fetchOrder, raisedIds,
                   persisted, fetched>>

\* what a reader of the cache file gets for an identifier
SavedOutput(f, id) ==
    LET loaded == GetProcessedData(f) IN
    IF ~loaded.raised /\ DictHas(loaded.data, id) /\ DictHas(DictGet(loaded.data, id), OutputKey)
    THEN DictGet(DictGet(loaded.data, id), OutputKey)
    ELSE NotPersisted

\* the with block ends: the file is closed and complete
SaveClose ==
    /\ pc = "write"
    /\ writeq = <<>>
    /\ pc' = "scores"
    /\ persisted' = [id \in Ids |->
                        IF persisted[id] = NotPersisted THEN SavedOutput(file, id)
                        ELSE persisted[id]]
    /\ UNCHANGED <<storeVars, inputVars, fetchVars, countVars, runHist, exit, results,
                   queue, writeq, individual_scores, analysis_results, fetchOrder, raisedIds, fetched>>

\* get_processed_data called by itself, on the storage as it is found or on
\* the storage a save has just closed
LoadCache ==
    /\ pc \in {"load", "scores"}
    /\ LET loaded == GetProcessedData(file) IN
        /\ processed_data' = loaded.data
        /\ exit' = IF loaded.raised THEN "JSONDecodeError" ELSE "ok"
    /\ pc' = IF pc = "load" THEN "loaded" ELSE "reloaded"
    /\ UNCHANGED <<storeVars, fetchVars, countVars, runHist, output_dir, pred_files,
                   gt_files, results, queue, writeq, individual_scores,
                   analysis_results, fetchOrder, raisedIds, persisted, fetched>>

\* ------------------------------------------------ rest of the entry point
\* line 50
GetScores ==
    /\ pc = "scores"
    /\ individual_scores' = GetIndividualScores(results)
    /\ pc' = "summary"
    /\ UNCHANGED <<storeVars, inputVars, fetchVars, countVars, runHist, exit, results,
                   queue, writeq, analysis_results, fetchOrder, raisedIds, persisted,
                   fetched>>

\* line 51
EvaluateMetrics ==
    /\ pc = "summary"
    /\ analysis_results' = EvaluateImageMetrics(individual_scores)
    /\ pc' = "report"
    /\ UNCHANGED <<storeVars, inputVars, fetchVars, countVars, runHist, exit, results,
                   queue, writeq, individual_scores, fetchOrder, raisedIds, persisted,
                   fetched>>

\* lines 52-53: output_dir / "vision_evaluation_summary.log" is a TypeError
\* for a str; otherwise the summary is written and the run is over
WriteSummary ==
    /\ pc = "report"
    /\ IF output_dir = "str"
       THEN ProcessExit("TypeError") /\ UNCHANGED summary
       ELSE ProcessExit("ok") /\ summary' = TRUE
    /\ UNCHANGED <<file, countVars, runHist, raisedIds, persisted>>

\* the process is killed; while the save is writing, storage holds a prefix
\* of what was written so far
Terminate ==
    /\ pc \in {"loop", "save", "write", "scores", "summary", "report"}
    /\ ProcessExit("killed")
    /\ IF pc = "write"
       THEN \E k \in 0..Len(file.content) :
                file' = [file EXCEPT !.content = SubSeq(file.content, 1, k)]
       ELSE UNCHANGED file
    /\ UNCHANGED <<summary, countVars, runHist, raisedIds, persisted>>

\* --------------------------------------------------------- specifications
Next ==
    \/ StartRun
    \/ SkipCached
    \/ SkipNoGroundTruth
    \/ EncodeFailure
    \/ CallFetch
    \/ FetchRequestOk
    \/ FetchRequestFail
    \/ FetchRetry
    \/ FetchExhausted
    \/ StoreResult
    \/ HandleFetchError
    \/ ReturnResults
    \/ SaveOpen
    \/ SaveWrite
    \/ SaveClose
    \/ GetScores
    \/ EvaluateMetrics
    \/ WriteSummary

\* runs of the entry point that are left to finish
Spec == Init /\ [][Next]_vars

\* runs of the entry point that may be killed at any point
CrashNext == Next \/ Terminate

CrashSpec == Init /\ [][CrashNext]_vars

\* direct calls of fetch_api_response with any max_attempts and retry_delay
FetchInit ==
    /\ Quiet
    /\ given = NoArgs
    /\ file = AbsentFile
    /\ individual_scores = <<>>
    /\ pc = "call"
    /\ results = <<>>
    /\ fstate = "running"
    /\ max_attempts \in 0..MaxAttemptsBound
    /\ retry_delay \in DelayChoices
    /\ attempt = 0

FetchNext == FetchRequestOk \/ FetchRequestFail \/ FetchRetry \/ FetchExhausted

FetchSpec == FetchInit /\ [][FetchNext]_vars

\* get_individual_scores applied to results whose raw outputs are drawn from
\* ParseTexts: token lists around the rubric length, one special token, a
\* line break or a spaced comma as first separator, separators at both ends
DigitChars == <<"0", "1", "2", "3", "4", "5", "6", "7", "8", "9">>

BaseToken(i) == <<DigitChars[(i % 10) + 1]>>

SpecialTokens ==
    {<<"1", "0">>, <<" ", "9", " ">>, <<"-", "3">>, <<"+", "2">>, <<"1", "_", "0">>,
     <<"1", "1">>, <<>>, <<"x">>, <<"4", ".", "5">>}

TokenLists(n) ==
    {[i \in 1..n |-> IF i = p THEN sp ELSE BaseToken(i)] :
        p \in {1, 5, n}, sp \in SpecialTokens \cup {BaseToken(1)}}

RECURSIVE JoinTokens(_, _)
JoinTokens(tokens, sep) ==
    IF Len(tokens) = 0 THEN <<>>
    ELSE IF Len(tokens) = 1 THEN tokens[1]
    ELSE tokens[1] \o sep \o JoinTokens(Tail(tokens), <<",">>)

EndChoices == {<<>>, <<",">>, <<" ", ",">>, <<"\n">>}
SepChoices == {<<",">>, <<"\n">>, <<",", " ">>}

\* the decimal numeral of a natural number
RECURSIVE Decimal(_)
Decimal(n) ==
    IF n < 10 THEN <<DigitChars[n + 1]>>
    ELSE Decimal(n \div 10) \o <<DigitChars[(n % 10) + 1]>>

\* the comma separated list of ten numbers the prompt asks for
Render(output_list) ==
    JoinTokens([i \in DOMAIN output_list |-> Decimal(output_list[i])], <<",">>)

\* the lists of ten scores of the 0-10 scale that are rendered: one score
\* everywhere, and a rising list with any score at one position
ScaleLists ==
    {[i \in 1..RubricLen |-> k] : k \in 0..10}
    \cup {[i \in 1..RubricLen |-> IF i = p THEN v ELSE i] : p \in 1..RubricLen, v \in 0..10}

ParseTexts ==
    {pre \o JoinTokens(toks, sep) \o post :
        pre \in EndChoices, post \in EndChoices, sep \in SepChoices,
        toks \in UNION {TokenLists(n) :
                          n \in (RubricLen - TokenSlack)..(RubricLen + TokenSlack)}}
    \cup {GoodBody, BadBody, <<>>}
    \cup {Render(l) : l \in ScaleLists}

IdA == <<"a">>
IdB == <<"b">>

ParseInputs ==
    {<<<<IdA, MakeResult(IdA, t)>>, <<IdB, MakeResult(IdB, u)>>>> :
        t \in ParseTexts, u \in Bodies}

ParseInit ==
    /\ Quiet
    /\ given = NoArgs
    /\ file = AbsentFile
    /\ individual_scores = <<>>
    /\ pc = "scores"
    /\ results \in ParseInputs
    /\ fstate = "idle"
    /\ max_attempts = DefaultMaxAttempts
    /\ retry_delay = DefaultRetryDelay
    /\ attempt = 0

ParseNext == GetScores

ParseSpec == ParseInit /\ [][ParseNext]_vars

\* evaluate_image_metrics applied to rubric mappings of up to two identifiers:
\* rubrics with one value everywhere, and a rising rubric with one field
\* set to an end of the scale
ConstantRubric(k) == DetailedScores([i \in 1..RubricLen |-> k])

RisingRubric(p, v) == DetailedScores([i \in 1..RubricLen |-> IF i = p THEN v ELSE i])

AggRubrics ==
    {ConstantRubric(k) : k \in {0, 5, 10}}
    \cup {RisingRubric(p, v) : p \in 1..RubricLen, v \in {0, 10}}

AggInputs ==
    {<<>>}
    \cup {<<<<id, r>>>> : id \in Ids, r \in AggRubrics}
    \cup {<<<<IdA, r>>, <<IdB, q>>>> : r \in AggRubrics, q \in AggRubrics}

AggInit ==
    /\ Quiet
    /\ given = NoArgs
    /\ file = AbsentFile
    /\ pc = "summary"
    /\ results = <<>>
    /\ individual_scores \in AggInputs
    /\ fstate = "idle"
    /\ max_attempts = DefaultMaxAttempts
    /\ retry_delay = DefaultRetryDelay
    /\ attempt = 0

AggNext == EvaluateMetrics

AggSpec == AggInit /\ [][AggNext]_vars

\* save_results_to_jsonl followed by get_processed_data, and
\* get_processed_data alone, on storage that is absent, empty, holds records
\* of an earlier save, or holds a torn or foreign line
CacheTexts ==
    {GoodBody, BadBody, <<>>, <<Quote>>, <<Backslash>>, <<"\n">>, <<Backslash, "n">>,
     <<"x", "\n", "}">>, <<Quote, ",", " ", Quote, ":", " ", Quote>>,
     <<Backslash, Quote, "{">>}

CacheMappings ==
    {<<>>}
    \cup {<<<<id, MakeResult(id, t)>>>> : id \in Ids, t \in CacheTexts}
    \cup {<<<<p[1], MakeResult(p[1], t)>>, <<p[2], MakeResult(p[2], u)>>>> :
              p \in {q \in Ids \X Ids : q[1] # q[2]}, t \in CacheTexts, u \in CacheTexts}

PriorContents ==
    {<<>>,
     ResultLine(MakeResult(IdA, BadBody)),
     ResultLine(MakeResult(IdB, GoodBody)) \o ResultLine(MakeResult(IdA, GoodBody)),
     SubSeq(ResultLine(MakeResult(IdA, GoodBody)), 1, 6),
     <<"n", "o", "\n">>}

PriorFiles == {AbsentFile} \cup {[exists |-> TRUE, content |-> c] : c \in PriorContents}

CacheInit ==
    /\ Quiet
    /\ given = NoArgs
    /\ individual_scores = <<>>
    /\ fstate = "idle"
    /\ max_attempts = DefaultMaxAttempts
    /\ retry_delay = DefaultRetryDelay
    /\ attempt = 0
    /\ file \in PriorFiles
    /\ \/ pc = "load" /\ results = <<>>
       \/ pc = "save" /\ results \in CacheMappings

CacheNext == SaveOpen \/ SaveWrite \/ SaveClose \/ LoadCache

CacheSpec == CacheInit /\ [][CacheNext]_vars

\* the entry point run again and again by a caller that repeats its
\* arguments; every run is left to finish, the caller always starts the next
\* one, and a fetch that is tried again and again succeeds at some time
GivenArgs == [output_dir : {"str", "Path"}, pred : PredDicts, gt : GtDicts]

LiveInit ==
    /\ Quiet
    /\ given \in GivenArgs
    /\ file = AbsentFile
    /\ individual_scores = <<>>
    /\ pc = "idle"
    /\ results = <<>>
    /\ fstate = "idle"
    /\ max_attempts = DefaultMaxAttempts
    /\ retry_delay = DefaultRetryDelay
    /\ attempt = 0

LiveNext ==
    \/ Rerun
    \/ SkipCached
    \/ SkipNoGroundTruth
    \/ EncodeFailure
    \/ CallFetch
    \/ FetchRequestOk
    \/ FetchRequestFail
    \/ FetchRetry
    \/ FetchExhausted
    \/ StoreResult
    \/ HandleFetchError
    \/ ReturnResults
    \/ SaveOpen
    \/ SaveWrite
    \/ SaveClose
    \/ GetScores
    \/ EvaluateMetrics
    \/ WriteSummary

\* the steps of a run between its load and its report whose effect is a
\* plain assignment: the loop of generate_responses, the fetch function, the
\* opening of the cache file and the write of the summary
RunSteps ==
    \/ SkipCached
    \/ SkipNoGroundTruth
    \/ EncodeFailure
    \/ CallFetch
    \/ FetchRequestOk
    \/ FetchRequestFail
    \/ FetchRetry
    \/ FetchExhausted
    \/ StoreResult
    \/ HandleFetchError
    \/ ReturnResults
    \/ SaveOpen
    \/ WriteSummary

\* Runs repeated with the same arguments.  A run is sequential code with no
\* blocking call but the request and the sleep, so a run that is started is
\* left to finish: weak fairness of its steps.  The steps that load, write,
\* parse and aggregate are enabled exactly at the positions "idle", "write",
\* "scores" and "summary" and each leaves its position after finitely many
\* steps (a load of the file a save left never raises here), so their weak
\* fairness is stated on the position.  The request that is tried run after
\* run succeeds at some time: strong fairness of FetchRequestOk.
LiveSpec ==
    /\ LiveInit
    /\ [][LiveNext]_vars
    /\ WF_vars(RunSteps)
    /\ SF_vars(FetchRequestOk)
    /\ []<>(pc # "idle")
    /\ []<>(pc # "write")
    /\ []<>(pc # "scores")
    /\ []<>(pc # "summary")

\* ----------------------------------------------------------------- claims
Returned == pc = "save"

\* the pair of an item of pred_files can be encoded
Encodable(item) ==
    /\ DictHas(gt_files, item[1])
    /\ ~EncodeImage(item[2]).raised
    /\ ~EncodeImage(DictGet(gt_files, item[1])).raised

Called == {fetchOrder[i] : i \in DOMAIN fetchOrder}

Covered == DictKeys(pred_files) \subseteq DictKeys(processed_data)

FetchActive == pc = "loop" /\ fstate # "idle"

\* C1: when the cache holds every identifier of the predicted set,
\* generate_responses calls the fetch function zero times and returns a
\* mapping equal to the cache; the saved output read back is that mapping
\* again, so feeding it back is the same case.
C1_Idempotent ==
    /\ (pc \in {"loop", "save", "write", "scores", "summary", "report"} /\ Covered)
          => fetchOrder = <<>> /\ fstate = "idle"
    /\ (Returned /\ Covered) => DictEq(results, processed_data)
    /\ (pc \in {"scores", "summary", "report"} /\ Covered)
          => /\ ~GetProcessedData(file).raised
             /\ DictEq(GetProcessedData(file).data, processed_data)

\* a second run over a fully cached pair of encodable images
C1_Witness ==
    /\ Returned
    /\ Covered
    /\ runs >= 2
    /\ Len(pred_files) = 2
    /\ \A i \in DOMAIN pred_files : Encodable(pred_files[i])

\* C2 as stated: over all runs sharing one cache the fetch function is
\* invoked at most once for each identifier.
C2_AtMostOneFetch == \A id \in Ids : callCount[id] <= 1

\* C2 amended: over all runs sharing one cache the fetch function returns at
\* most once for each identifier, and it is not invoked for an identifier
\* after it has returned for it.
C2_AtMostOneSuccess ==
    /\ \A id \in Ids : okCount[id] <= 1
    /\ FetchActive => okCount[Current] = 0

\* an identifier fetched in two runs: the first fetch raised, the second returned
C2_Witness == \E id \in Ids : callCount[id] >= 2 /\ okCount[id] = 1

\* C3: once a saved cache holds a record for an identifier, no later run
\* invokes the fetch function for it and every later saved cache holds the
\* same raw output for it.
C3_Resumable ==
    \A id \in Ids :
        persisted[id] # NotPersisted =>
            /\ ~(FetchActive /\ Current = id)
            /\ pc # "write" => SavedOutput(file, id) = persisted[id]

\* a later run is given a persisted identifier again, with an encodable pair,
\* and has saved its cache
C3_Witness ==
    /\ pc = "scores"
    /\ runs >= 2
    /\ \E i \in DOMAIN pred_files :
        /\ Encodable(pred_files[i])
        /\ DictHas(processed_data, pred_files[i][1])
        /\ persisted[pred_files[i][1]] # NotPersisted
    /\ Len(results) = 2

\* C4: whatever encodings and fetches fail, no exception leaves
\* generate_responses, and every predicted identifier that is not cached, has
\* a ground-truth image, encodes and whose fetch does not raise has a new
\* record in the returned mapping.
C4_PartialFailure ==
    /\ exit \notin {"Exception", "OSError", "KeyError"}
    /\ Returned =>
          \A i \in DOMAIN pred_files :
              LET id == pred_files[i][1] IN
              (/\ ~DictHas(processed_data, id)
               /\ Encodable(pred_files[i])
               /\ id \notin raisedIds)
                  => DictHas(results, id) /\ id \in Called

\* the first identifier's fetch raised, the second has a new record
C4_Witness ==
    /\ Returned
    /\ Len(pred_files) = 2
    /\ pred_files[1][1] \in raisedIds
    /\ DictHas(results, pred_files[2][1])
    /\ ~DictHas(processed_data, pred_files[2][1])

\* C5: an identifier whose fetch raised has no record in the output of
\* generate_responses nor in the saved cache, and the next run that is given
\* its pair again invokes the fetch function for it again.
C5_FailureNotCached ==
    /\ pc \in {"loop", "save", "write", "scores", "summary", "report"}
          => \A id \in raisedIds : ~DictHas(results, id)
    /\ pc \in {"scores", "summary", "report"}
          => \A id \in raisedIds : SavedOutput(file, id) = NotPersisted
    /\ Returned =>
          \A i \in DOMAIN pred_files :
              (pred_files[i][1] \in prevRaised /\ Encodable(pred_files[i]))
                  => pred_files[i][1] \in Called

\* a run fetches again an identifier whose fetch raised in the run before
C5_Witness ==
    /\ Returned
    /\ runs >= 2
    /\ prevRaised \cap Called # {}

\* a sleep of retry_delay lies between any two requests of the log
SleepBetweenRequests(log, delay) ==
    \A i, j \in DOMAIN log :
        (i < j /\ log[i].op = "request" /\ log[j].op = "request")
            => \E k \in (i + 1)..(j - 1) : log[k] = Sleep(delay)

\* C6: fetch_api_response never issues more than max_attempts requests; when
\* it raises, every one of exactly max_attempts requests has failed and
\* retry_delay was waited between consecutive requests (max_attempts = 0:
\* no request, and it raises).
C6_RetryExhaustion ==
    /\ Requests(fetchLog) <= max_attempts
    /\ fstate = "raised" =>
          /\ Requests(fetchLog) = max_attempts
          /\ SleepBetweenRequests(fetchLog, retry_delay)

\* three failed requests with the default delay, then the raise
C6_Witness ==
    /\ pc = "call"
    /\ fstate = "raised"
    /\ max_attempts = DefaultMaxAttempts
    /\ retry_delay = DefaultRetryDelay
    /\ Requests(fetchLog) = DefaultMaxAttempts

\* C7: when a run is killed, every record the cache file held when the run
\* loaded it is still read back from the file.
C7_CrashSafe ==
    [][(pc # "idle" /\ exit' = "killed") =>
          \A id \in DictKeys(processed_data) :
              SavedOutput(file', id) = DictGet(DictGet(processed_data, id), OutputKey)]_vars

MissingGroundTruth == DictKeys(pred_files) \ DictKeys(gt_files)

\* C8 as stated: a predicted identifier without ground truth causes no
\* exception and no fetch call and is absent from the returned mapping.
C8_MissingGroundTruth ==
    /\ exit # "KeyError"
    /\ pc \in {"loop", "save"} => \A id \in MissingGroundTruth : id \notin Called
    /\ Returned => \A id \in MissingGroundTruth : ~DictHas(results, id)

\* C8 amended: a predicted identifier without ground truth causes no
\* exception and no fetch call; it is absent from the returned mapping unless
\* the cache already held a record for it, which is then returned unchanged.
C8_MissingGroundTruthUnlessCached ==
    /\ exit # "KeyError"
    /\ pc \in {"loop", "save"} => \A id \in MissingGroundTruth : id \notin Called
    /\ Returned =>
          \A id \in MissingGroundTruth :
              /\ DictHas(results, id) <=> DictHas(processed_data, id)
              /\ DictHas(results, id) => DictGet(results, id) = DictGet(processed_data, id)

\* one identifier without ground truth and not cached, another one fetched
C8_Witness ==
    /\ Returned
    /\ \E id \in MissingGroundTruth : ~DictHas(processed_data, id)
    /\ Called # {}

\* C9: the returned mapping has as keys the cached identifiers and the
\* identifiers whose fetch returned in this call; cached records are returned
\* unchanged and a new record is {image_id: identifier, output: fetched text}.
C9_OutputIsUnion ==
    Returned =>
        /\ DictKeys(results) = DictKeys(processed_data) \cup DictKeys(fetched)
        /\ DistinctKeys(results)
        /\ \A id \in DictKeys(processed_data) :
              DictGet(results, id) = DictGet(processed_data, id)
        /\ \A id \in DictKeys(fetched) :
              DictGet(results, id) = <<<<ImageIdKey, id>>, <<OutputKey, DictGet(fetched, id)>>>>

\* a cached record and a new record are returned together
C9_Witness ==
    /\ Returned
    /\ processed_data # <<>>
    /\ fetched # <<>>

\* s is r without its leading and trailing characters of chars
IsStripOf(s, r, chars) ==
    \E i \in 1..(Len(r) + 1), j \in 0..Len(r) :
        /\ s = SubSeq(r, i, j)
        /\ \A k \in 1..(i - 1) : r[k] \in chars
        /\ \A k \in (j + 1)..Len(r) : r[k] \in chars
        /\ s # <<>> => (s[1] \notin chars /\ s[Len(s)] \notin chars)

\* the fields of a rubric in the fixed positional order
RubricFields(r) ==
    <<r.layout_consistency, r.element_alignment, r.proportional_accuracy,
      r.visual_harmony, r.color_scheme_match, r.aesthetic_resemblance,
      r.font_consistency, r.textual_content_match, r.numeric_accuracy,
      r.ui_consistency>>

\* C10: a record yields a rubric exactly when its raw text, line breaks
\* replaced by commas and commas and spaces stripped at both ends, splits on
\* commas into ten tokens that each convert to an integer; field i of the
\* rubric is then token i; any other text yields no rubric for that
\* identifier only.  The spec's example parses to 7,8,9,10,6,5,4,3,2,1.
C10_ParserAcceptance ==
    pc = "summary" =>
        \A i \in DOMAIN results :
            LET id == results[i][1]
                output == DictGet(results[i][2], OutputKey)
                toks == OutputTokens(output)
                accepted == /\ Len(toks) = RubricLen
                            /\ \A k \in DOMAIN toks : IntAccepts(toks[k])
            IN  /\ Len(toks) >= 1
                /\ \A k \in DOMAIN toks : \A c \in DOMAIN toks[k] : toks[k][c] # ","
                /\ IsStripOf(JoinTokens(toks, <<",">>), ReplaceNewlines(output), {",", " "})
                /\ DictHas(individual_scores, id) <=> accepted
                /\ accepted =>
                      RubricFields(DictGet(individual_scores, id))
                          = [k \in 1..RubricLen |-> IntOf(toks[k])]
                /\ output = GoodBody =>
                      /\ DictHas(individual_scores, id)
                      /\ RubricFields(DictGet(individual_scores, id))
                            = <<7, 8, 9, 10, 6, 5, 4, 3, 2, 1>>

\* eleven tokens are rejected for the first record, the second still parses
C10_Witness ==
    /\ pc = "summary"
    /\ Len(results) = 2
    /\ Len(OutputTokens(DictGet(results[1][2], OutputKey))) = RubricLen + 1
    /\ ~DictHas(individual_scores, results[1][1])
    /\ DictGet(results[2][2], OutputKey) = GoodBody
    /\ DictHas(individual_scores, results[2][1])

\* C11: every field of every rubric produced by get_individual_scores lies
\* in 0..10; a raw output with an integer outside that range yields no rubric.
C11_RubricRange ==
    pc = "summary" =>
        \A i \in DOMAIN individual_scores :
            \A k \in 1..RubricLen :
                RubricFields(individual_scores[i][2])[k] \in 0..10

\* the sum over the rubrics of a mapping of the fields lo..hi
RECURSIVE FieldSum(_, _, _)
FieldSum(scores, lo, hi) ==
    IF scores = <<>> THEN 0
    ELSE IF lo > hi THEN FieldSum(Tail(scores), 1, 0)
    ELSE RubricFields(Head(scores)[2])[lo]
         + FieldSum(<<Head(scores)>>, lo + 1, hi)
         + FieldSum(Tail(scores), lo, hi)

\* the fraction x equals n / d
Is(x, n, d) == x.num * d = n * x.den

AllEqual(m, k) ==
    /\ Is(m.overall_similarity, k, 1)
    /\ Is(m.visual_structure, k, 1)
    /\ Is(m.color_aesthetic, k, 1)
    /\ Is(m.textual_content, k, 1)
    /\ Is(m.user_interface, k, 1)

\* C12: each category value is the mean over the rubrics of the rubric's
\* contribution (mean of fields 1-4, of fields 5-6, of fields 7-9, field 10),
\* overall_similarity is the mean of the four category values, and for no
\* rubric at all the five values are 0; one all-10 rubric gives 10 everywhere,
\* one all-0 and one all-10 rubric give 5 everywhere.
C12_Aggregation ==
    pc = "report" =>
        LET n == Len(individual_scores)
            m == analysis_results
            SV == FieldSum(individual_scores, 1, 4)
            SC == FieldSum(individual_scores, 5, 6)
            ST == FieldSum(individual_scores, 7, 9)
            SU == FieldSum(individual_scores, 10, 10)
        IN  /\ n = 0 => AllEqual(m, 0)
            /\ n > 0 =>
                /\ Is(m.visual_structure, SV, 4 * n)
                /\ Is(m.color_aesthetic, SC, 2 * n)
                /\ Is(m.textual_content, ST, 3 * n)
                /\ Is(m.user_interface, SU, n)
                /\ Is(m.overall_similarity, 3 * SV + 6 * SC + 4 * ST + 12 * SU, 48 * n)
            /\ DictValues(individual_scores) = <<ConstantRubric(10)>> => AllEqual(m, 10)
            /\ DictValues(individual_scores) \in
                   {<<ConstantRubric(0), ConstantRubric(10)>>,
                    <<ConstantRubric(10), ConstantRubric(0)>>} => AllEqual(m, 5)

C12_Witness ==
    /\ pc = "report"
    /\ DictValues(individual_scores) = <<ConstantRubric(0), ConstantRubric(10)>>
    /\ AllEqual(analysis_results, 5)

\* the raw output does not parse into ten integers
Unparsable(output) ==
    LET output_list == IntList(OutputTokens(output)) IN
    output_list.raised \/ Len(output_list.value) # RubricLen

\* C13: in an entry-point run a record whose raw output fails to parse has no
\* rubric among those passed to aggregation but is in the saved cache file
\* with its raw output, and no later run invokes the fetch function for its
\* identifier.
C13_ParseFailureKept ==
    \A id \in Ids :
        /\ (/\ pc \in {"summary", "report"}
            /\ DictHas(results, id)
            /\ Unparsable(DictGet(DictGet(results, id), OutputKey)))
              => /\ ~DictHas(individual_scores, id)
                 /\ SavedOutput(file, id) = DictGet(DictGet(results, id), OutputKey)
        /\ (persisted[id] # NotPersisted /\ Unparsable(persisted[id]))
              => ~(FetchActive /\ Current = id)

\* a second run is given again, with an encodable pair, an identifier whose
\* saved output does not parse, and has parsed its results without a new fetch
C13_Witness ==
    /\ pc = "report"
    /\ runs >= 2
    /\ \E i \in DOMAIN pred_files :
        /\ Encodable(pred_files[i])
        /\ persisted[pred_files[i][1]] = BadBody
        /\ callCount[pred_files[i][1]] = 1
        /\ DictHas(results, pred_files[i][1])
        /\ ~DictHas(individual_scores, pred_files[i][1])

\* C14: a record whose raw output is the text "v0,v1,...,v9" of ten scores in
\* 0..10 is parsed by get_individual_scores into the rubric whose fields, in
\* the fixed order, are v0..v9.
C14_RoundTrip ==
    pc = "summary" =>
        \A l \in ScaleLists :
            DictGet(DictGet(results, IdA), OutputKey) = Render(l)
                => /\ DictHas(individual_scores, IdA)
                   /\ RubricFields(DictGet(individual_scores, IdA)) = l
                   /\ DictGet(individual_scores, IdA) = DetailedScores(l)

\* the text "1,2,3,4,10,6,7,8,9,10" has been parsed into its rubric
C14_Witness ==
    /\ pc = "summary"
    /\ DictGet(DictGet(results, IdA), OutputKey)
           = Render([i \in 1..RubricLen |-> IF i = 5 THEN 10 ELSE i])
    /\ DictHas(individual_scores, IdA)
    /\ DictGet(individual_scores, IdA).color_scheme_match = 10
    /\ DictGet(individual_scores, IdA).ui_consistency = 10

\* C15: get_processed_data on absent storage returns the empty mapping without
\* error, and get_processed_data after save_results_to_jsonl(m) returns m,
\* whatever the file held before the save.
C15_CacheRoundTrip ==
    /\ (pc = "loaded" /\ ~file.exists) => (exit = "ok" /\ processed_data = <<>>)
    /\ pc = "reloaded" => (exit = "ok" /\ processed_data = results)

\* a mapping of two records, one with a quote and one with a line break in
\* its raw output, was saved and read back
C15_Witness ==
    /\ pc = "reloaded"
    /\ Len(results) = 2
    /\ processed_data = results
    /\ \E i \in DOMAIN results : Quote \in {results[i][2][2][2][k] : k \in DOMAIN results[i][2][2][2]}
    /\ \E i \in DOMAIN results : DictGet(results[i][2], OutputKey) = <<"x", "\n", "}">>
    /\ persisted[IdA] # NotPersisted

\* absent storage was read
C15_WitnessAbsent == pc = "loaded" /\ ~file.exists /\ processed_data = <<>>

\* the image_id of every record line of a file, in file order
RECURSIVE LineIds(_)
LineIds(lines) ==
    IF lines = <<>> THEN <<>>
    ELSE LET item == JsonLoads(Head(lines)) IN
         IF item.ok /\ DictHas(item.value, ImageIdKey)
         THEN <<DictGet(item.value, ImageIdKey)>> \o LineIds(Tail(lines))
         ELSE LineIds(Tail(lines))

Distinct(s) == \A i, j \in DOMAIN s : i # j => s[i] # s[j]

\* every record of the mapping is under the key equal to its image_id, and no
\* key occurs twice
KeyedByImageId(d) ==
    /\ Distinct(DictItemKeys(d))
    /\ \A i \in DOMAIN d :
        DictHas(d[i][2], ImageIdKey) /\ DictGet(d[i][2], ImageIdKey) = d[i][1]

\* C16: over any sequence of runs the cache file never holds two records with
\* the same image_id, and every record of the loaded mapping and of the
\* results mapping is stored under the key equal to its image_id.
C16_UniqueIdentifiers ==
    /\ Distinct(LineIds(FileLines(file.content)))
    /\ KeyedByImageId(processed_data)
    /\ KeyedByImageId(results)

\* a second run has added a record to the one it loaded and saved both
C16_Witness ==
    /\ pc = "scores"
    /\ runs >= 2
    /\ Len(processed_data) = 1
    /\ Len(results) = 2
    /\ Len(LineIds(FileLines(file.content))) = 2

\* C17: every run of gpt4_vision_evaluation, given its output directory as a
\* path string or as a path object, completes and leaves the cache file and
\* the summary report, the cache file being written before the summary.
C17_EntryPointOutputs ==
    /\ (pc = "idle" /\ runs >= 1) => (exit = "ok" /\ file.exists /\ summary)
    /\ summary => file.exists

\* the position of an identifier in the enumeration of the predicted set
PredIndex(id) == CHOOSE k \in DOMAIN pred_files : pred_files[k][1] = id

\* the fetch for the identifier is over: it raised or its record is stored
Finished(id) == id \in raisedIds \/ DictHas(results, id)

\* C18: within one generate_responses call the fetch calls are issued in the
\* enumeration order of the predicted set, at most one per identifier, each
\* for the identifier the loop has reached, and every fetch but the one in
\* progress has finished, by a record or by a failure.
C18_Sequential ==
    /\ Distinct(fetchOrder)
    /\ \A i \in DOMAIN fetchOrder : DictHas(pred_files, fetchOrder[i])
    /\ \A i, j \in DOMAIN fetchOrder :
        i < j => PredIndex(fetchOrder[i]) < PredIndex(fetchOrder[j])
    /\ FetchActive =>
        /\ fetchOrder # <<>>
        /\ fetchOrder[Len(fetchOrder)] = pred_files[Len(pred_files) - Len(queue) + 1][1]
    /\ \A i \in DOMAIN fetchOrder :
        (i < Len(fetchOrder) \/ ~FetchActive) => Finished(fetchOrder[i])

\* the first fetch raised and the second identifier's fetch is between two
\* attempts
C18_Witness ==
    /\ FetchActive
    /\ Len(fetchOrder) = 2
    /\ fetchOrder[1] \in raisedIds
    /\ fstate = "except"
    /\ attempt >= 1

\* C19: when fetch_api_response returns after attempt failed requests, it has
\* issued exactly attempt + 1 <= max_attempts requests, the last of them is
\* the last thing it did, and it returns the body of that response; it raises
\* only when max_attempts requests were issued and none of them succeeded.
C19_StopsAtFirstSuccess ==
    /\ fstate = "returned" =>
          /\ Requests(fetchLog) = attempt + 1
          /\ Requests(fetchLog) <= max_attempts
          /\ fetchLog[Len(fetchLog)].op = "request"
          /\ response \in Bodies
    /\ fstate = "raised" =>
          /\ Requests(fetchLog) = max_attempts
          /\ attempt = max_attempts
          /\ response = <<>>

\* two failed requests, then the third returns a body
C19_Witness ==
    /\ pc = "call"
    /\ fstate = "returned"
    /\ attempt = 2
    /\ max_attempts = DefaultMaxAttempts
    /\ Requests(fetchLog) = 3
    /\ response = GoodBody

\* C20: when fetch_api_response has ended after at least one request, the
\* number of retry_delay waits is the number of requests minus one; no wait
\* follows the last failed request before the raise.
C20_DelaysBetweenAttempts ==
    (fstate \in {"returned", "raised"} /\ Requests(fetchLog) >= 1)
        => Sleeps(fetchLog) = Requests(fetchLog) - 1

\* the identifiers present in both sets the caller gives
Both == {id \in DictKeys(given.pred) : DictHas(given.gt, id)}

\* the text save_results_to_jsonl leaves for a mapping
RECURSIVE CacheText(_)
CacheText(d) ==
    IF d = <<>> THEN <<>> ELSE ResultLine(Head(d)[2]) \o CacheText(Tail(d))

\* both images of every identifier present in both sets can be encoded
C21_Encodable ==
    \A id \in Both :
        /\ ~EncodeImage(DictGet(given.pred, id)).raised
        /\ ~EncodeImage(DictGet(given.gt, id)).raised

\* the cache file holds a record for every identifier present in both sets
\* (outside the moment a save rewrites it), the current run has called the
\* fetch function for nothing, and the file holds what the run loaded
C21_Settled ==
    /\ pc # "write" => \A id \in Both : SavedOutput(file, id) # NotPersisted
    /\ fetchOrder = <<>>
    /\ ~FetchActive
    /\ pc \in {"loop", "save", "scores", "summary", "report"}
          => file.content = CacheText(processed_data)

\* C21: with fixed predicted and ground-truth sets, every identifier present
\* in both encodable, runs repeated and left to finish, and a fetch that is
\* retried run after run succeeding at some time, from some run on the cache
\* file holds a record for every such identifier, and every later run calls
\* the fetch function zero times and leaves the cache file as it loaded it.
C21_EventualCompletion == C21_Encodable => <>[]C21_Settled

\* a run after the one in which the last missing record was fetched: two
\* identifiers in both sets, one fetched at the second attempt over the runs,
\* nothing fetched now, and the file saved again with the same text
C21_Witness ==
    /\ given # NoArgs
    /\ Cardinality(Both) = 2
    /\ C21_Encodable
    /\ pc = "scores"
    /\ fetchOrder = <<>>
    /\ \E id \in Both : callCount[id] >= 2
    /\ \A id \in Both : okCount[id] = 1 /\ SavedOutput(file, id) # NotPersisted
    /\ file.content = CacheText(processed_data)

====
